---- MODULE Spec2Model ----
(***************************************************************************)
(* Model of pieces of the Velox vector model:                              *)
(*   - flattenArray / flattenMap (functions/lib/LambdaFunctionUtil.cpp),   *)
(*     specification SpecFlatten;                                          *)
(*   - DecimalCasts::parseStringToDecimal, one action per step of the      *)
(*     parse loop, specifications SpecDecimal and SpecLongDecimal;         *)
(*   - the Decimal and Int128 operators, specification SpecOperators;      *)
(*   - the conversion of DuckDB vectors (duckdb/conversion/DuckWrapper),   *)
(*     specification SpecConvert, the DuckResult cursor, specification     *)
(*     SpecDuckResult, and the foreign memory behind it, specification     *)
(*     SpecLifetime;                                                       *)
(*   - the array function contains, specification SpecContains.            *)
(* Vectors are records, buffers are functions over 0..n-1 (row numbers are *)
(* zero based as in the source), strings are sequences of one-character    *)
(* strings, and 128-bit integers are a sign and a magnitude of limbs.      *)
(***************************************************************************)
EXTENDS Integers, Sequences, FiniteSets, Bags, TLC

VARIABLES
  vector,    \* the Array/Map vector handed to flattenArray / flattenMap
  rows,      \* the SelectivityVector of the call
  buffers,   \* what flattenBuffers produced in the last call
  returned,  \* the vector returned by the last call
  calls,     \* number of flatten calls made so far
  pc,        \* "ready" before a call, "done" after it
  value,     \* the string handed to parseStringToDecimal
  locals,    \* the locals of parseToInt128 while its loop runs
  decimal,   \* what parseStringToDecimal returned or threw
  self,      \* the Decimal an operator is called on (this)
  other,     \* the Decimal passed to the operator
  outcome,   \* the operator calls made so far, each with what it gave
  foreignVector,  \* the foreign (DuckDB) vector handed to toVeloxVector
  foreignSize,    \* the size handed to toVeloxVector
  converted,      \* what toVeloxVector / getVector returned or threw
  queryResult_,   \* DuckResult: the chunks the query result still holds
  currentChunk_,  \* DuckResult: the chunk of the last Fetch, or none
  nextReturned,   \* DuckResult: what the calls of next() returned, in order
  arrayVector,    \* contains: the array argument
  search,         \* contains: the constant search argument
  flatResult,     \* contains: the result vector
  foreignMemory,  \* use count of every foreign buffer handed out so far
  bufferViews     \* the BufferViews of foreign memory that are alive

flattenVars == <<vector, rows, buffers, returned, calls>>
decimalVars == <<value, locals, decimal>>
operatorVars == <<self, other, outcome>>
convertVars == <<foreignVector, foreignSize, converted>>
duckResultVars == <<queryResult_, currentChunk_, nextReturned>>
containsVars == <<arrayVector, search, flatResult>>
lifetimeVars == <<foreignMemory, bufferViews>>

vars == <<flattenVars, decimalVars, operatorVars, convertVars,
          duckResultVars, containsVars, lifetimeVars, pc>>

----------------------------------------------------------------------------
(* Bounds of the flattening model.                                         *)

NumElements == 2     \* length of the elements child of the base vector
MaxRows == 2         \* length of the dictionary and of the selection
MaxCalls == 2        \* flatten calls in one behaviour

Uninitialized == {0, 7}   \* contents of freshly allocated, unwritten memory

Min(a, b) == IF a <= b THEN a ELSE b

SetMax(S) == CHOOSE m \in S : \A x \in S : x <= m

----------------------------------------------------------------------------
(* Vectors.                                                                *)

EmptyBuffer == <<>>

\* A flat child vector holding the given values.
FlatVector(values) ==
  [encoding |-> "FLAT", length |-> Cardinality(DOMAIN values), values |-> values]

\* BaseVector::wrapInDictionary(nulls = nullptr, indices, size, base).
wrapInDictionary(indices, size, base) ==
  [encoding |-> "DICTIONARY", length |-> size, indices |-> indices, base |-> base]

\* Value of row i of a child vector, resolved through a dictionary wrapper.
ChildValueAt(child, i) ==
  IF child.encoding = "DICTIONARY"
  THEN child.base.values[child.indices[i]]
  ELSE child.values[i]

ArrayVector(hasNulls, nulls, length, offsets, sizes, elements) ==
  [encoding |-> "ARRAY", hasNulls |-> hasNulls, nulls |-> nulls,
   length |-> length, offsets |-> offsets, sizes |-> sizes,
   elements |-> elements]

MapVector(hasNulls, nulls, length, offsets, sizes, keys, values) ==
  [encoding |-> "MAP", hasNulls |-> hasNulls, nulls |-> nulls,
   length |-> length, offsets |-> offsets, sizes |-> sizes,
   mapKeys |-> keys, mapValues |-> values]

\* BaseVector::isNullAt for a vector with an optional validity buffer.
IsNullAt(v, r) == v.hasNulls /\ v.nulls[r]

\* SelectivityVector::end(): one past the last selected row.
SelEnd(sel) == IF sel.selected = {} THEN 0 ELSE SetMax(sel.selected) + 1

\* DecodedVector for an Array/Map vector under at most one dictionary.
decode(v) ==
  IF v.encoding = "DICTIONARY"
  THEN [isIdentityMapping |-> FALSE,
        base |-> v.base,
        indices |-> v.indices,
        mayHaveNulls |-> v.hasNulls \/ v.base.hasNulls,
        nullAt |-> [r \in 0..(v.length - 1) |->
                      IsNullAt(v, r) \/ IsNullAt(v.base, v.indices[r])]]
  ELSE [isIdentityMapping |-> TRUE,
        base |-> v,
        indices |-> [r \in 0..(v.length - 1) |-> r],
        mayHaveNulls |-> v.hasNulls,
        nullAt |-> [r \in 0..(v.length - 1) |-> IsNullAt(v, r)]]

----------------------------------------------------------------------------
(* LambdaFunctionUtil: countElements, flattenNulls, flattenBuffers,        *)
(* flattenArray, flattenMap.                                               *)

RECURSIVE countFrom(_, _, _)
countFrom(row, sel, decodedVector) ==
  IF row >= SelEnd(sel) THEN 0
  ELSE (IF row \in sel.selected /\ ~decodedVector.nullAt[row]
        THEN decodedVector.base.sizes[decodedVector.indices[row]]
        ELSE 0) + countFrom(row + 1, sel, decodedVector)

\* countElements<T>(rows, decodedVector): pass 1.
countElements(sel, decodedVector) == countFrom(0, sel, decodedVector)

\* Mutant: the validity bits are written with the opposite polarity.
flattenNulls_Inverted(sel, decodedVector, uninit) ==
  IF ~decodedVector.mayHaveNulls
  THEN [present |-> FALSE, bits |-> EmptyBuffer]
  ELSE [present |-> TRUE,
        bits |-> [r \in 0..(sel.size - 1) |->
                    IF r \in sel.selected
                    THEN ~decodedVector.nullAt[r]
                    ELSE uninit # 0]]

\* flattenNulls: no buffer when the decoded vector cannot have nulls, else a
\* buffer of rows.size() bits in which only the selected rows are written.
flattenNulls(sel, decodedVector, uninit) ==
  IF ~decodedVector.mayHaveNulls
  THEN [present |-> FALSE, bits |-> EmptyBuffer]
  ELSE [present |-> TRUE,
        bits |-> [r \in 0..(sel.size - 1) |->
                    IF r \in sel.selected
                    THEN decodedVector.nullAt[r]
                    ELSE uninit # 0]]

\* Mutant: the inner loop writes offset instead of offset + i.
writeElementIndices_NoAdvance(rawElementIndices, elementIndex, offset, size) ==
  [k \in DOMAIN rawElementIndices |->
     IF elementIndex <= k /\ k < elementIndex + size
     THEN offset
     ELSE rawElementIndices[k]]

\* The inner loop of flattenBuffers: size writes at elementIndex++.
writeElementIndices(rawElementIndices, elementIndex, offset, size) ==
  [k \in DOMAIN rawElementIndices |->
     IF elementIndex <= k /\ k < elementIndex + size
     THEN offset + (k - elementIndex)
     ELSE rawElementIndices[k]]

\* Mutant: pass 2 does not skip the null rows.
flattenRow_NoNullSkip(row, decodedVector, st) ==
  LET size == decodedVector.base.sizes[decodedVector.indices[row]]
      offset == decodedVector.base.offsets[decodedVector.indices[row]]
  IN [st EXCEPT
        !.newSizes = [@ EXCEPT ![row] = size],
        !.newOffsets = [@ EXCEPT ![row] = st.elementIndex],
        !.elementIndices =
           writeElementIndices(@, st.elementIndex, offset, size),
        !.overrun = @ \/ (st.elementIndex + size > st.newNumElements),
        !.elementIndex = @ + size]

\* Mutant: newOffsets takes the row's offset in the base vector instead of
\* the cursor.
flattenRow_BaseOffset(row, decodedVector, st) ==
  IF st.newNulls.present /\ st.newNulls.bits[row]
  THEN st
  ELSE LET size == decodedVector.base.sizes[decodedVector.indices[row]]
           offset == decodedVector.base.offsets[decodedVector.indices[row]]
       IN [st EXCEPT
             !.newSizes = [@ EXCEPT ![row] = size],
             !.newOffsets = [@ EXCEPT ![row] = offset],
             !.elementIndices =
                writeElementIndices(@, st.elementIndex, offset, size),
             !.overrun = @ \/ (st.elementIndex + size > st.newNumElements),
             !.elementIndex = @ + size]

\* One invocation of the lambda of flattenBuffers' applyToSelected.
flattenRow(row, decodedVector, st) ==
  IF st.newNulls.present /\ st.newNulls.bits[row]
  THEN st
  ELSE LET size == decodedVector.base.sizes[decodedVector.indices[row]]
           offset == decodedVector.base.offsets[decodedVector.indices[row]]
       IN [st EXCEPT
             !.newSizes = [@ EXCEPT ![row] = size],
             !.newOffsets = [@ EXCEPT ![row] = st.elementIndex],
             !.elementIndices =
                writeElementIndices(@, st.elementIndex, offset, size),
             !.overrun = @ \/ (st.elementIndex + size > st.newNumElements),
             !.elementIndex = @ + size]

RECURSIVE flattenFrom(_, _, _, _)
flattenFrom(row, sel, decodedVector, st) ==
  IF row >= SelEnd(sel) THEN st
  ELSE flattenFrom(row + 1, sel, decodedVector,
                   IF row \in sel.selected
                   THEN flattenRow(row, decodedVector, st)
                   ELSE st)

\* flattenBuffers<T>: allocates the four buffers and runs pass 2.
flattenBuffers(sel, newNumElements, decodedVector, uninit) ==
  flattenFrom(0, sel, decodedVector,
    [newNulls |-> flattenNulls(sel, decodedVector, uninit),
     elementIndices |-> [k \in 0..(newNumElements - 1) |-> uninit],
     newSizes |-> [r \in 0..(SelEnd(sel) - 1) |-> uninit],
     newOffsets |-> [r \in 0..(SelEnd(sel) - 1) |-> uninit],
     newNumElements |-> newNumElements,
     elementIndex |-> 0,
     overrun |-> FALSE])

NoBuffers == [newNumElements |-> -1]

\* Mutant: flattenArray without the identity short cut.
flattenArray_NoIdentityCheck(sel, v, decodedVector, uninit) ==
  LET newNumElements == countElements(sel, decodedVector)
      b == flattenBuffers(sel, newNumElements, decodedVector, uninit)
      array == decodedVector.base
  IN [returned |->
        ArrayVector(b.newNulls.present, b.newNulls.bits, sel.size,
                    b.newOffsets, b.newSizes,
                    wrapInDictionary(b.elementIndices, newNumElements,
                                     array.elements)),
      built |-> b]

\* flattenArray: the returned vector, and the buffers the call built.
flattenArray(sel, v, decodedVector, uninit) ==
  IF decodedVector.isIdentityMapping
  THEN [returned |-> v, built |-> NoBuffers]
  ELSE LET newNumElements == countElements(sel, decodedVector)
           b == flattenBuffers(sel, newNumElements, decodedVector, uninit)
           array == decodedVector.base
       IN [returned |->
             ArrayVector(b.newNulls.present, b.newNulls.bits, sel.size,
                         b.newOffsets, b.newSizes,
                         wrapInDictionary(b.elementIndices, newNumElements,
                                          array.elements)),
           built |-> b]

\* Mutant: flattenMap sizes its result by rows.end() instead of rows.size().
flattenMap_EndLength(sel, v, decodedVector, uninit) ==
  IF decodedVector.isIdentityMapping
  THEN [returned |-> v, built |-> NoBuffers]
  ELSE LET newNumElements == countElements(sel, decodedVector)
           b == flattenBuffers(sel, newNumElements, decodedVector, uninit)
           map == decodedVector.base
       IN [returned |->
             MapVector(b.newNulls.present, b.newNulls.bits, SelEnd(sel),
                       b.newOffsets, b.newSizes,
                       wrapInDictionary(b.elementIndices, newNumElements,
                                        map.mapKeys),
                       wrapInDictionary(b.elementIndices, newNumElements,
                                        map.mapValues)),
           built |-> b]

\* flattenMap: as flattenArray, with the keys and the values children
\* wrapped over the same elementIndices.
flattenMap(sel, v, decodedVector, uninit) ==
  IF decodedVector.isIdentityMapping
  THEN [returned |-> v, built |-> NoBuffers]
  ELSE LET newNumElements == countElements(sel, decodedVector)
           b == flattenBuffers(sel, newNumElements, decodedVector, uninit)
           map == decodedVector.base
       IN [returned |->
             MapVector(b.newNulls.present, b.newNulls.bits, sel.size,
                       b.newOffsets, b.newSizes,
                       wrapInDictionary(b.elementIndices, newNumElements,
                                        map.mapKeys),
                       wrapInDictionary(b.elementIndices, newNumElements,
                                        map.mapValues)),
           built |-> b]

----------------------------------------------------------------------------
(* Inputs of the flattening model.  The base Array/Map vector holds one    *)
(* row for every element range [offset, offset + size) of its child, and   *)
(* optionally a null row, so that a dictionary over it can present any     *)
(* sequence of ranges (overlapping, repeated, out of order) and nulls.     *)

ElementsChild == FlatVector([i \in 0..(NumElements - 1) |-> 10 + i])
KeysChild == FlatVector([i \in 0..(NumElements - 1) |-> 20 + i])
ValuesChild == FlatVector([i \in 0..(NumElements - 1) |-> 30 + i])

RECURSIVE RangesFrom(_, _)
RangesFrom(o, s) ==
  IF o > NumElements THEN <<>>
  ELSE IF o + s > NumElements THEN RangesFrom(o + 1, 0)
  ELSE <<[null |-> FALSE, offset |-> o, size |-> s]>> \o RangesFrom(o, s + 1)

AllRanges == RangesFrom(0, 0)

\* The offset and size slots of a null row are unspecified: the model keeps
\* a nonzero size there, which no reader may rely on.
NullRow == [null |-> TRUE, offset |-> 0, size |-> 1]

BaseVector(kind, hasNulls) ==
  LET shape == IF hasNulls THEN AllRanges \o <<NullRow>> ELSE AllRanges
      n == Len(shape)
      nulls == IF hasNulls THEN [r \in 0..(n - 1) |-> shape[r + 1].null]
               ELSE EmptyBuffer
      offsets == [r \in 0..(n - 1) |-> shape[r + 1].offset]
      sizes == [r \in 0..(n - 1) |-> shape[r + 1].size]
  IN IF kind = "ARRAY"
     THEN ArrayVector(hasNulls, nulls, n, offsets, sizes, ElementsChild)
     ELSE MapVector(hasNulls, nulls, n, offsets, sizes, KeysChild, ValuesChild)

BaseVectors ==
  {BaseVector(kind, hasNulls) : kind \in {"ARRAY", "MAP"}, hasNulls \in BOOLEAN}

\* Dictionaries of 1..MaxRows rows over a base; entry -1 is a row that is
\* null in the dictionary's own validity buffer (its index slot then holds
\* the last base row, a value no reader may rely on).
DictionaryVectors(base) ==
  UNION {{[encoding |-> "DICTIONARY", length |-> n,
           hasNulls |-> hasNulls,
           nulls |-> IF hasNulls THEN [r \in 0..(n - 1) |-> e[r] = -1]
                     ELSE EmptyBuffer,
           indices |-> [r \in 0..(n - 1) |->
                         IF e[r] = -1 THEN base.length - 1 ELSE e[r]],
           base |-> base] :
            e \in [0..(n - 1) -> (-1)..(base.length - 1)],
            hasNulls \in BOOLEAN} : n \in 1..MaxRows}

InputVectors ==
  BaseVectors \cup UNION {DictionaryVectors(b) : b \in BaseVectors}

\* Selections a caller may pass: any rows of the vector, in a selection
\* whose size() is at least end().
Selections(length) ==
  UNION {{[size |-> n, selected |-> s] :
            s \in SUBSET (0..(Min(n, length) - 1))} : n \in 0..MaxRows}

NoVector == [encoding |-> "NONE"]
NoString == <<>>
NoDecimal == [status |-> "none"]
NoLocals == [pos |-> 0]
NoChunk == [present |-> FALSE]
NoSelection == [size |-> 0, selected |-> {}]

\* The parts of the state a specification does not use stay as they are here.
FlattenIdle ==
  /\ vector = NoVector
  /\ rows = NoSelection
  /\ buffers = NoBuffers
  /\ returned = NoVector
  /\ calls = 0

DecimalIdle == value = NoString /\ locals = NoLocals /\ decimal = NoDecimal

OperatorIdle == self = NoDecimal /\ other = NoDecimal /\ outcome = {}

ConvertIdle ==
  foreignVector = NoVector /\ foreignSize = 0 /\ converted = NoVector

DuckResultIdle ==
  queryResult_ = <<>> /\ currentChunk_ = NoChunk /\ nextReturned = <<>>

ContainsIdle ==
  arrayVector = NoVector /\ search = NoVector /\ flatResult = NoVector

LifetimeIdle == foreignMemory = <<>> /\ bufferViews = EmptyBag

----------------------------------------------------------------------------
(* The flattening state machine.                                           *)

InitFlatten ==
  /\ vector \in InputVectors
  /\ rows \in Selections(vector.length)
  /\ buffers = NoBuffers
  /\ returned = NoVector
  /\ calls = 0
  /\ pc = "ready"
  /\ DecimalIdle /\ OperatorIdle /\ ConvertIdle /\ DuckResultIdle
  /\ ContainsIdle
  /\ LifetimeIdle

\* A caller flattens an Array vector.
FlattenArray ==
  /\ pc = "ready"
  /\ calls < MaxCalls
  /\ (IF vector.encoding = "DICTIONARY" THEN vector.base.encoding
      ELSE vector.encoding) = "ARRAY"
  /\ \E uninit \in Uninitialized :
       LET out == flattenArray(rows, vector, decode(vector), uninit)
       IN /\ returned' = out.returned
          /\ buffers' = out.built
  /\ calls' = calls + 1
  /\ pc' = "done"
  /\ UNCHANGED <<vector, rows, value, locals, decimal>>
  /\ UNCHANGED <<operatorVars, convertVars, duckResultVars, containsVars,
                 lifetimeVars>>

\* A caller flattens a Map vector.
FlattenMap ==
  /\ pc = "ready"
  /\ calls < MaxCalls
  /\ (IF vector.encoding = "DICTIONARY" THEN vector.base.encoding
      ELSE vector.encoding) = "MAP"
  /\ \E uninit \in Uninitialized :
       LET out == flattenMap(rows, vector, decode(vector), uninit)
       IN /\ returned' = out.returned
          /\ buffers' = out.built
  /\ calls' = calls + 1
  /\ pc' = "done"
  /\ UNCHANGED <<vector, rows, value, locals, decimal>>
  /\ UNCHANGED <<operatorVars, convertVars, duckResultVars, containsVars,
                 lifetimeVars>>

\* The caller hands the returned vector to the next flatten call.
PassResultOn ==
  /\ pc = "done"
  /\ calls < MaxCalls
  /\ vector' = returned
  /\ returned' = NoVector
  /\ buffers' = NoBuffers
  /\ pc' = "ready"
  /\ UNCHANGED <<rows, calls, value, locals, decimal>>
  /\ UNCHANGED <<operatorVars, convertVars, duckResultVars, containsVars,
                 lifetimeVars>>

NextFlatten == FlattenArray \/ FlattenMap \/ PassResultOn

SpecFlatten == InitFlatten /\ [][NextFlatten]_vars

----------------------------------------------------------------------------
(* Int128: a signed 128-bit integer, held as a sign and a magnitude.  The  *)
(* magnitude is a sequence of limbs in base 10000 (four decimal digits per *)
(* limb), least significant first, without leading zero limbs; zero is the *)
(* empty magnitude with a positive sign.                                   *)

kMaxPrecisionInt128 == 38
Uint8Range == 256
Base10 == 10

RECURSIVE MagTrim(_)
MagTrim(a) ==
  IF a # <<>> /\ a[Len(a)] = 0 THEN MagTrim(SubSeq(a, 1, Len(a) - 1)) ELSE a

RECURSIVE MagAdd(_, _, _)
MagAdd(a, b, carry) ==
  IF a = <<>> /\ b = <<>>
  THEN (IF carry = 0 THEN <<>> ELSE <<carry>>)
  ELSE LET x == IF a = <<>> THEN 0 ELSE Head(a)
           y == IF b = <<>> THEN 0 ELSE Head(b)
           t == x + y + carry
       IN <<t % 10000>> \o MagAdd(IF a = <<>> THEN <<>> ELSE Tail(a),
                                  IF b = <<>> THEN <<>> ELSE Tail(b),
                                  t \div 10000)

\* a - b - borrow for a >= b + borrow, limb by limb (untrimmed).
RECURSIVE MagSubLimbs(_, _, _)
MagSubLimbs(a, b, borrow) ==
  IF a = <<>> THEN <<>>
  ELSE LET y == IF b = <<>> THEN 0 ELSE Head(b)
           t == Head(a) - y - borrow
       IN <<(t + 10000) % 10000>> \o
            MagSubLimbs(Tail(a), IF b = <<>> THEN <<>> ELSE Tail(b),
                        IF t < 0 THEN 1 ELSE 0)

MagSub(a, b) == MagTrim(MagSubLimbs(a, b, 0))

\* -1, 0 or 1 as a < b, a = b or a > b.
MagCmp(a, b) ==
  IF Len(a) < Len(b) THEN -1
  ELSE IF Len(a) > Len(b) THEN 1
  ELSE IF a = b THEN 0
  ELSE LET i == CHOOSE i \in 1..Len(a) :
                  a[i] # b[i] /\ \A j \in (i + 1)..Len(a) : a[j] = b[j]
       IN IF a[i] < b[i] THEN -1 ELSE 1

RECURSIVE MagMulLimb(_, _, _)
MagMulLimb(a, d, carry) ==
  IF a = <<>>
  THEN (IF carry = 0 THEN <<>> ELSE <<carry>>)
  ELSE LET t == Head(a) * d + carry
       IN <<t % 10000>> \o MagMulLimb(Tail(a), d, t \div 10000)

RECURSIVE MagMul(_, _)
MagMul(a, b) ==
  IF b = <<>> THEN <<>>
  ELSE LET rest == MagMul(a, Tail(b))
       IN MagTrim(MagAdd(MagMulLimb(a, Head(b), 0),
                         IF rest = <<>> THEN <<>> ELSE <<0>> \o rest, 0))

Signed(neg, mag) == [neg |-> neg /\ mag # <<>>, mag |-> mag]

Int128Zero == Signed(FALSE, <<>>)

\* A small non-negative integer (below 10000) as an Int128 value.
Int128Of(n) == Signed(FALSE, MagTrim(<<n>>))

\* The mathematical sum, difference and product of two signed values.
SignedAdd(x, y) ==
  IF x.neg = y.neg THEN Signed(x.neg, MagAdd(x.mag, y.mag, 0))
  ELSE IF MagCmp(x.mag, y.mag) >= 0 THEN Signed(x.neg, MagSub(x.mag, y.mag))
  ELSE Signed(y.neg, MagSub(y.mag, x.mag))

SignedSub(x, y) == SignedAdd(x, Signed(~y.neg, y.mag))

SignedMul(x, y) == Signed(x.neg # y.neg, MagMul(x.mag, y.mag))

\* 2^127 = 170141183460469231731687303715884105728, one more than the
\* largest int128_t.
Int128Limit == <<5728, 8410, 7158, 7303, 3168, 2317, 469, 8346, 1411, 170>>

\* Whether a mathematical value fits int128_t: -2^127 <= x <= 2^127 - 1.
FitsInt128(x) ==
  IF x.neg THEN MagCmp(x.mag, Int128Limit) <= 0
  ELSE MagCmp(x.mag, Int128Limit) < 0

\* Mutant: operator+ without the overflow check, wrapping modulo 2^128.
Int128Plus_Wrapping(lhs, rhs) ==
  LET sum == SignedAdd(lhs, rhs)
      modulus == Signed(FALSE, MagAdd(Int128Limit, Int128Limit, 0))
  IN [ok |-> TRUE,
      value |-> IF FitsInt128(sum) THEN sum
                ELSE IF sum.neg THEN SignedAdd(sum, modulus)
                ELSE SignedSub(sum, modulus)]

\* Int128::operator+ : VELOX_CHECK(!__builtin_add_overflow(...)).
Int128Plus(lhs, rhs) ==
  LET sum == SignedAdd(lhs, rhs) IN [ok |-> FitsInt128(sum), value |-> sum]

\* Int128::operator* : VELOX_CHECK(!__builtin_mul_overflow(...)).
Int128Times(lhs, rhs) ==
  LET product == SignedMul(lhs, rhs)
  IN [ok |-> FitsInt128(product), value |-> product]

\* Int128::operator- : VELOX_CHECK(!__builtin_sub_overflow(...)).
Int128Minus(lhs, rhs) ==
  LET diff == SignedSub(lhs, rhs) IN [ok |-> FitsInt128(diff), value |-> diff]

----------------------------------------------------------------------------
(* DecimalCasts: the helpers of parseToInt128 and parseStringToDecimal.     *)

DigitChars == <<"0", "1", "2", "3", "4", "5", "6", "7", "8", "9">>

isdigit(c) == \E i \in 1..Len(DigitChars) : DigitChars[i] = c

\* value[pos] - '0'
DigitValue(c) == (CHOOSE i \in 1..Len(DigitChars) : DigitChars[i] = c) - 1

\* std::string::find_first_not_of(ch): the first position holding another
\* character; npos, here -1, when there is none.
find_first_not_of(str, ch) ==
  IF \A i \in 1..Len(str) : str[i] = ch THEN -1
  ELSE (CHOOSE i \in 1..Len(str) :
          str[i] # ch /\ \A j \in 1..(i - 1) : str[j] = ch) - 1

\* std::string::erase(0, count): drops the first count characters, all of
\* them when count is npos.
erase(str, count) ==
  IF count = -1 \/ count >= Len(str) THEN <<>>
  ELSE SubSeq(str, count + 1, Len(str))

\* Mutant: the digit is added also for a negative number.
accumulate_IgnoreSign(result, digit, isNegative) ==
  LET exponent == Int128Of(Base10)
      product == Int128Times(result, exponent)
  IN IF ~product.ok THEN product
     ELSE Int128Plus(product.value, digit)

\* result = result * exponent -/+ digit, with exponent = 10.
accumulate(result, digit, isNegative) ==
  LET exponent == Int128Of(Base10)
      product == Int128Times(result, exponent)
  IN IF ~product.ok THEN product
     ELSE IF isNegative THEN Int128Minus(product.value, digit)
     ELSE Int128Plus(product.value, digit)

----------------------------------------------------------------------------
(* Inputs of the decimal model: every short string over a small alphabet,  *)
(* long runs of one digit behind a short head, and the strings around the  *)
(* two ends of the int128_t range.                                         *)

MaxLen == 3        \* length of the exhaustively enumerated strings
MaxDigits == 40    \* length of the longest run of one digit

Alphabet == {"0", "1", "9", ".", "+", "-", "x"}

ShortStrings == UNION {[1..n -> Alphabet] : n \in 0..MaxLen}

Run(c, k) == [i \in 1..k |-> c]

LongStrings ==
  {sign \o head \o Run(c, k) \o tail :
     sign \in {<<>>, <<"-">>, <<"+">>},
     head \in {<<>>, <<"1">>, <<"0", ".">>, <<"1", ".">>},
     c \in {"0", "1", "9"},
     k \in (kMaxPrecisionInt128 - 2)..MaxDigits,
     tail \in {<<>>, <<"x">>, <<".">>}}

\* The decimal numeral of a magnitude.
RECURSIVE LimbsToString(_)
LimbsToString(mag) ==
  IF mag = <<>> THEN <<>>
  ELSE LimbsToString(Tail(mag)) \o
         <<DigitChars[(Head(mag) \div 1000) + 1],
           DigitChars[((Head(mag) \div 100) % 10) + 1],
           DigitChars[((Head(mag) \div 10) % 10) + 1],
           DigitChars[(Head(mag) % 10) + 1]>>

MagToString(mag) ==
  LET padded == LimbsToString(mag)
  IN erase(padded, find_first_not_of(padded, "0"))

BoundaryStrings ==
  {MagToString(MagSub(Int128Limit, <<1>>)),
   MagToString(Int128Limit),
   <<"-">> \o MagToString(Int128Limit),
   <<"-">> \o MagToString(MagAdd(Int128Limit, <<1>>, 0))}

DecimalStrings == ShortStrings \cup LongStrings \cup BoundaryStrings

InitDecimal ==
  /\ value \in DecimalStrings
  /\ locals = NoLocals
  /\ decimal = NoDecimal
  /\ pc = "ready"
  /\ FlattenIdle /\ OperatorIdle /\ ConvertIdle /\ DuckResultIdle
  /\ ContainsIdle
  /\ LifetimeIdle

UserError(message) == [status |-> "VeloxUserError", message |-> message]

\* parseStringToDecimal is entered: its length check, and parseToInt128 up
\* to the head of the while loop (sign, leading zeros, cleared counters).
ParseStringToDecimal ==
  /\ pc = "ready"
  /\ IF ~(Len(value) > 0)
     THEN /\ decimal' = [status |-> "VeloxRuntimeError",
                         message |-> "Decimal string must have at least 1 char"]
          /\ pc' = "done"
          /\ UNCHANGED locals
     ELSE LET signed == ~isdigit(value[1])
              unsigned == IF signed THEN erase(value, 1) ELSE value
          IN IF signed /\ ~(value[1] = "-" \/ value[1] = "+")
             THEN /\ decimal' = UserError("Illegal decimal value")
                  /\ pc' = "done"
                  /\ UNCHANGED locals
             ELSE /\ locals' =
                       [str |-> erase(unsigned, find_first_not_of(unsigned, "0")),
                        pos |-> 0,
                        isNegative |-> signed /\ value[1] = "-",
                        hasScale |-> FALSE,
                        result |-> Int128Zero,
                        precision |-> 0,
                        scale |-> 0]
                  /\ pc' = "loop"
                  /\ UNCHANGED decimal
  /\ UNCHANGED <<value, vector, rows, buffers, returned, calls>>
  /\ UNCHANGED <<operatorVars, convertVars, duckResultVars, containsVars,
                 lifetimeVars>>

\* One iteration of the while loop at a '.' : hasScale = true; pos++.
ParseSeparator ==
  /\ pc = "loop"
  /\ locals.pos < Len(locals.str)
  /\ locals.str[locals.pos + 1] = "."
  /\ locals' = [locals EXCEPT !.hasScale = TRUE,
                              !.pos = (@ + 1) % Uint8Range]
  /\ UNCHANGED <<pc, decimal, value, vector, rows, buffers, returned, calls>>
  /\ UNCHANGED <<operatorVars, convertVars, duckResultVars, containsVars,
                 lifetimeVars>>

\* One iteration of the while loop at any other character: the digit check,
\* the accumulation (whose check failure parseStringToDecimal catches and
\* rethrows as "Decimal overflow") and the uint8_t counters.
ParseDigit ==
  /\ pc = "loop"
  /\ locals.pos < Len(locals.str)
  /\ locals.str[locals.pos + 1] # "."
  /\ IF ~isdigit(locals.str[locals.pos + 1])
     THEN /\ decimal' = UserError("Invalid decimal string")
          /\ pc' = "done"
          /\ UNCHANGED locals
     ELSE LET digit == Int128Of(DigitValue(locals.str[locals.pos + 1]))
              next == accumulate(locals.result, digit, locals.isNegative)
          IN IF ~next.ok
             THEN /\ decimal' = UserError("Decimal overflow")
                  /\ pc' = "done"
                  /\ UNCHANGED locals
             ELSE /\ locals' =
                       [locals EXCEPT
                          !.result = next.value,
                          !.scale = IF locals.hasScale
                                    THEN (@ + 1) % Uint8Range ELSE @,
                          !.precision = (@ + 1) % Uint8Range,
                          !.pos = (@ + 1) % Uint8Range]
                  /\ UNCHANGED <<pc, decimal>>
  /\ UNCHANGED <<value, vector, rows, buffers, returned, calls>>
  /\ UNCHANGED <<operatorVars, convertVars, duckResultVars, containsVars,
                 lifetimeVars>>

\* The loop ends and parseStringToDecimal returns
\* Decimal(unscaledValue, precision, scale).
ReturnDecimal ==
  /\ pc = "loop"
  /\ ~(locals.pos < Len(locals.str))
  /\ decimal' = [status |-> "ok", message |-> "",
                 unscaledValue |-> locals.result,
                 precision |-> locals.precision,
                 scale |-> locals.scale]
  /\ pc' = "done"
  /\ UNCHANGED <<locals, value, vector, rows, buffers, returned, calls>>
  /\ UNCHANGED <<operatorVars, convertVars, duckResultVars, containsVars,
                 lifetimeVars>>

NextDecimal ==
  ParseStringToDecimal \/ ParseSeparator \/ ParseDigit \/ ReturnDecimal

SpecDecimal == InitDecimal /\ [][NextDecimal]_vars

\* Strings around the range of the 8-bit scan position: a digit and a run
\* of '.' that make 255 characters, and heads without a digit other than
\* zero before runs of '.' that leave 256 characters and more to scan.
VeryLongStrings ==
  {<<"1">> \o Run(".", Uint8Range - 2),
   <<"0", ".">> \o Run(".", Uint8Range - 1),
   <<"+">> \o Run(".", Uint8Range),
   <<"-", "0", "0">> \o Run(".", Uint8Range + 1),
   <<"+", "x">> \o Run(".", Uint8Range)}

InitLongDecimal ==
  /\ value \in VeryLongStrings
  /\ locals = NoLocals
  /\ decimal = NoDecimal
  /\ pc = "ready"
  /\ FlattenIdle /\ OperatorIdle /\ ConvertIdle /\ DuckResultIdle
  /\ ContainsIdle
  /\ LifetimeIdle

\* A call of parseStringToDecimal runs on: a step that can be taken is
\* taken.
SpecLongDecimal ==
  InitLongDecimal /\ [][NextDecimal]_vars /\ WF_vars(NextDecimal)

----------------------------------------------------------------------------
(* Decimal and Int128 operators.  A behaviour holds two Decimals, self and *)
(* other, and calls operators on them; outcome collects the calls made,    *)
(* each with its operands ("self" or "other" on either side) and result.   *)

MaxOps == 2        \* operator calls in one behaviour

\* Decimal(Int128 value, uint8_t precision, uint8_t scale): no validation.
Decimal(unscaledValue, precision, scale) ==
  [unscaledValue |-> unscaledValue, precision |-> precision, scale |-> scale]

\* Int128::operator== : this->value == other.value.
Int128Equals(a, b) == a.neg = b.neg /\ MagCmp(a.mag, b.mag) = 0

\* Mutant: equality of the unscaled values alone.
DecimalEquals_ValueOnly(a, b) == Int128Equals(a.unscaledValue, b.unscaledValue)

\* Decimal::operator==
DecimalEquals(a, b) ==
  /\ Int128Equals(a.unscaledValue, b.unscaledValue)
  /\ a.precision = b.precision
  /\ a.scale = b.scale

\* Decimal::operator!= : return true.
DecimalNotEquals(a, b) == TRUE

\* The largest and the smallest int128_t.
Int128Max == Signed(FALSE, MagSub(Int128Limit, <<1>>))
Int128Min == Signed(TRUE, Int128Limit)

\* The operands: small values, one value under several precisions and
\* scales (12300 at scale 2 and 1230 at scale 1 both denote 123.0), a
\* value whose sum with itself outgrows its precision, and the values at
\* both ends of the int128_t range.
Decimals ==
  {Decimal(Int128Zero, 38, 0),
   Decimal(Int128Of(1), 38, 0),
   Decimal(Int128Of(1), 1, 0),
   Decimal(Signed(TRUE, <<1>>), 38, 0),
   Decimal(Int128Of(2), 38, 0),
   Decimal(Int128Of(9), 1, 0),
   Decimal(Signed(FALSE, <<2300, 1>>), 5, 2),
   Decimal(Int128Of(1230), 4, 1),
   Decimal(Int128Of(1230), 5, 2),
   Decimal(Int128Max, 38, 0),
   Decimal(Signed(FALSE, MagSub(Int128Limit, <<2>>)), 38, 0),
   Decimal(Int128Min, 38, 0),
   Decimal(Signed(TRUE, MagSub(Int128Limit, <<1>>)), 38, 0)}

OperandNames == {"self", "other"}

Operand(name) == IF name = "self" THEN self ELSE other

InitOperators ==
  /\ self \in Decimals
  /\ other \in Decimals
  /\ outcome = {}
  /\ pc = "ready"
  /\ FlattenIdle /\ DecimalIdle /\ ConvertIdle /\ DuckResultIdle
  /\ ContainsIdle
  /\ LifetimeIdle

\* One operator call is recorded; the operands are taken by reference and
\* no operator assigns to them.
Record(call) ==
  /\ Cardinality(outcome) < MaxOps
  /\ outcome' = outcome \cup {call}
  /\ UNCHANGED <<self, other, pc>>
  /\ UNCHANGED <<flattenVars, decimalVars, convertVars, duckResultVars,
                 containsVars, lifetimeVars>>

Compared(op, a, b, equal) ==
  [op |-> op, a |-> a, b |-> b, ok |-> TRUE, equal |-> equal,
   value |-> Int128Zero]

Computed(op, a, b, out) ==
  [op |-> op, a |-> a, b |-> b, ok |-> out.ok, equal |-> FALSE,
   value |-> IF out.ok THEN out.value ELSE Int128Zero]

\* a == b
CallEquals ==
  \E a \in OperandNames, b \in OperandNames :
    Record(Compared("==", a, b, DecimalEquals(Operand(a), Operand(b))))

\* a != b
CallNotEquals ==
  \E a \in OperandNames, b \in OperandNames :
    Record(Compared("!=", a, b, DecimalNotEquals(Operand(a), Operand(b))))

\* a.getUnscaledValue() + b.getUnscaledValue()
CallPlus ==
  \E a \in OperandNames, b \in OperandNames :
    Record(Computed("+", a, b, Int128Plus(Operand(a).unscaledValue,
                                          Operand(b).unscaledValue)))

\* a.getUnscaledValue() - b.getUnscaledValue()
CallMinus ==
  \E a \in OperandNames, b \in OperandNames :
    Record(Computed("-", a, b, Int128Minus(Operand(a).unscaledValue,
                                           Operand(b).unscaledValue)))

\* a.getUnscaledValue() * b.getUnscaledValue()
CallTimes ==
  \E a \in OperandNames, b \in OperandNames :
    Record(Computed("*", a, b, Int128Times(Operand(a).unscaledValue,
                                           Operand(b).unscaledValue)))

NextOperators ==
  CallEquals \/ CallNotEquals \/ CallPlus \/ CallMinus \/ CallTimes

SpecOperators == InitOperators /\ [][NextOperators]_vars

----------------------------------------------------------------------------
(* DuckWrapper: conversion of a foreign (DuckDB) vector.  A foreign flat   *)
(* vector has a logical type, data slots 0..capacity-1 and a validity mask *)
(* (allValid: no mask; else one bit per slot, TRUE = valid).  A foreign    *)
(* dictionary vector has a child and a selection.  Slot contents are       *)
(* numbers; Garbage is the content of a slot nobody initialised.           *)

Garbage == -1

\* A LogicalType: its id, its physical type and, for DECIMAL, its width
\* and scale.
DuckType(id, internal, width, scale) ==
  [id |-> id, internal |-> internal, width |-> width, scale |-> scale]

DuckFlatVector(type, data, allValid, valid) ==
  [encoding |-> "FLAT_VECTOR", type |-> type, data |-> data,
   allValid |-> allValid, valid |-> valid]

DuckDictionaryVector(type, child, sel) ==
  [encoding |-> "DICTIONARY_VECTOR", type |-> type, child |-> child,
   sel |-> sel]

\* A constant or sequence vector: an encoding convert has no case for.
DuckOtherVector(encoding, type) == [encoding |-> encoding, type |-> type]

\* ValidityMask::RowIsValid(i); a row past the mask reads foreign memory
\* that nobody wrote.
RowIsValid(duckVector, i, uninit) ==
  IF duckVector.allValid THEN TRUE
  ELSE IF i \in DOMAIN duckVector.valid THEN duckVector.valid[i]
  ELSE uninit # 0

\* duckData[i]; a slot past the data reads foreign memory nobody wrote.
DuckDataAt(duckVector, i) ==
  IF i \in DOMAIN duckVector.data THEN duckVector.data[i] ELSE Garbage

\* The conversion classes toVeloxVector instantiates convert with, by
\* logical type, and convertDuckToVeloxDecimal with, by physical type.
ConversionOf ==
  [BOOLEAN |-> "DuckNumericConversion<bool>",
   TINYINT |-> "DuckNumericConversion<int8_t>",
   SMALLINT |-> "DuckNumericConversion<int16_t>",
   INTEGER |-> "DuckNumericConversion<int32_t>",
   BIGINT |-> "DuckNumericConversion<int64_t>",
   HUGEINT |-> "DuckHugeintConversion",
   FLOAT |-> "DuckNumericConversion<float>",
   DOUBLE |-> "DuckNumericConversion<double>",
   VARCHAR |-> "DuckStringConversion",
   DATE |-> "DuckDateConversion",
   TIMESTAMP |-> "DuckTimestampConversion"]

DecimalConversionOf ==
  [INT16 |-> "DuckShortDecimalConversion",
   INT32 |-> "DuckShortDecimalConversion",
   INT64 |-> "DuckShortDecimalConversion",
   INT128 |-> "DuckLongDecimalConversion"]

\* Whether the foreign layout of a type is the layout of its Velox type, so
\* that the foreign bits are the converted value.
BitCompatible(type) ==
  IF type.id = "DECIMAL" THEN type.internal \in {"INT64", "INT128"}
  ELSE type.id \notin {"HUGEINT", "TIMESTAMP", "VARCHAR"}

\* OP::toVelox(duckData[i]): the foreign bits themselves where the layouts
\* agree, else a value of the Velox type built from them.
toVelox(op, type, x) == IF BitCompatible(type) THEN x ELSE <<op, x>>

\* A Velox flat vector: nulls[i] TRUE is a null row; view tells whether the
\* buffers are views of foreign memory or owned copies.
VeloxFlatVector(type, hasNulls, nulls, length, values, view) ==
  [encoding |-> "FLAT", type |-> type, hasNulls |-> hasNulls,
   nulls |-> nulls, length |-> length, values |-> values, view |-> view]

\* What a conversion gives: a vector and the foreign slots it handed to
\* OP::toVelox, or the exception it threw.
Converted(v, read) == [status |-> "ok", vector |-> v, read |-> read]

Thrown(class, text, named) ==
  [status |-> "error", class |-> class, text |-> text, named |-> named]

\* VELOX_UNSUPPORTED(...)
VeloxUnsupported(text, named) == Thrown("VeloxUserError/UNSUPPORTED", text, named)

NoValidity == [present |-> FALSE, used |-> {}]

\* Mutant: the copy loop without the copy of the validity mask.
copyRows_NoNulls(op, duckVector, veloxType, size, validity, uninit) ==
  LET used == {i \in 0..(size - 1) :
                 RowIsValid(duckVector, i, uninit)
                   /\ (~validity.present \/ i \in validity.used)}
  IN Converted(
       VeloxFlatVector(veloxType, FALSE, EmptyBuffer, size,
                       [i \in 0..(size - 1) |->
                          IF i \in used
                          THEN toVelox(op, duckVector.type,
                                       DuckDataAt(duckVector, i))
                          ELSE 0],
                       FALSE),
       used)

\* Mutant: the copy loop that does not consult the used-value bitmap.
copyRows_NoBitmap(op, duckVector, veloxType, size, validity, uninit) ==
  LET used == {i \in 0..(size - 1) : RowIsValid(duckVector, i, uninit)}
      hasNulls == ~duckVector.allValid
  IN Converted(
       VeloxFlatVector(veloxType, hasNulls,
                       IF hasNulls
                       THEN [i \in 0..(size - 1) |->
                               ~RowIsValid(duckVector, i, uninit)]
                       ELSE EmptyBuffer,
                       size,
                       [i \in 0..(size - 1) |->
                          IF i \in used
                          THEN toVelox(op, duckVector.type,
                                       DuckDataAt(duckVector, i))
                          ELSE 0],
                       FALSE),
       used)

\* The copy path: BaseVector::create, then OP::toVelox on every row that is
\* valid and, under a used-value bitmap, used; then the foreign validity
\* mask copied over the nulls when the foreign vector is not all valid.
copyRows(op, duckVector, veloxType, size, validity, uninit) ==
  LET used == {i \in 0..(size - 1) :
                 RowIsValid(duckVector, i, uninit)
                   /\ (~validity.present \/ i \in validity.used)}
      hasNulls == ~duckVector.allValid
  IN Converted(
       VeloxFlatVector(veloxType, hasNulls,
                       IF hasNulls
                       THEN [i \in 0..(size - 1) |->
                               ~RowIsValid(duckVector, i, uninit)]
                       ELSE EmptyBuffer,
                       size,
                       [i \in 0..(size - 1) |->
                          IF i \in used
                          THEN toVelox(op, duckVector.type,
                                       DuckDataAt(duckVector, i))
                          ELSE 0],
                       FALSE),
       used)

\* The zero-copy path: BufferViews of the foreign data and, when the
\* foreign vector is not all valid, of its validity mask.
viewRows(op, duckVector, veloxType, size, uninit) ==
  LET hasNulls == ~duckVector.allValid
  IN Converted(
       VeloxFlatVector(veloxType, hasNulls,
                       IF hasNulls
                       THEN [i \in 0..(size - 1) |->
                               ~RowIsValid(duckVector, i, uninit)]
                       ELSE EmptyBuffer,
                       size,
                       [i \in 0..(size - 1) |-> DuckDataAt(duckVector, i)],
                       TRUE),
       {})

\* Mutant: the index of the last row instead of the largest index.
maxIndexOf_Last(selection, size) ==
  IF size = 0 THEN 0 ELSE selection[size - 1]

\* maxIndex = max(0, selection.get_index(i)) over i < size.
maxIndexOf(selection, size) ==
  SetMax({0} \cup {selection[i] : i \in 0..(size - 1)})

\* The types convert copies row by row.
needsCopy(type) == type.id \in {"HUGEINT", "TIMESTAMP", "VARCHAR"}

\* convert<OP>(duckVector, veloxType, size, pool, validity)
RECURSIVE convert(_, _, _, _, _, _)
convert(op, duckVector, veloxType, size, validity, uninit) ==
  IF duckVector.encoding = "FLAT_VECTOR"
  THEN IF needsCopy(duckVector.type)
       THEN copyRows(op, duckVector, veloxType, size, validity, uninit)
       ELSE viewRows(op, duckVector, veloxType, size, uninit)
  ELSE IF duckVector.encoding = "DICTIONARY_VECTOR"
  THEN LET child == duckVector.child
           selection == duckVector.sel
           maxIndex == maxIndexOf(selection, size)
           base ==
             IF needsCopy(child.type)
             THEN convert(op, child, veloxType, maxIndex + 1,
                          [present |-> TRUE,
                           used |-> {selection[i] : i \in 0..(size - 1)}],
                          uninit)
             ELSE convert(op, child, veloxType, maxIndex + 1, NoValidity,
                          uninit)
           indices == [i \in 0..(size - 1) |-> selection[i]]
       IN IF base.status # "ok" THEN base
          ELSE Converted(wrapInDictionary(indices, size, base.vector),
                         base.read)
  ELSE VeloxUnsupported("Unsupported DuckDB vector encoding: {}",
                        duckVector.encoding)

\* convertDuckToVeloxDecimal<OP, I>(duckVector, veloxType, size, pool,
\* validity)
RECURSIVE convertDuckToVeloxDecimal(_, _, _, _, _, _)
convertDuckToVeloxDecimal(op, duckVector, veloxType, size, validity, uninit) ==
  IF duckVector.encoding = "FLAT_VECTOR"
  THEN IF duckVector.type.internal \in {"INT16", "INT32"}
       THEN copyRows(op, duckVector, veloxType, size, validity, uninit)
       ELSE IF duckVector.type.internal \in {"INT64", "INT128"}
       THEN viewRows(op, duckVector, veloxType, size, uninit)
       ELSE VeloxUnsupported(
              "Unsupported DuckDB LogicalType:{} to ShortDecimal conversion",
              duckVector.type.id)
  ELSE IF duckVector.encoding = "DICTIONARY_VECTOR"
  THEN convertDuckToVeloxDecimal(op, duckVector.child, veloxType, size,
                                 NoValidity, uninit)
  ELSE VeloxUnsupported("Unsupported DuckDB vector encoding: {}",
                        duckVector.encoding)

\* toVeloxType(duckType) and DECIMAL(width, scale): the Velox type of a
\* column.
toVeloxType(type) ==
  IF type.id = "DECIMAL"
  THEN [kind |-> "DECIMAL", width |-> type.width, scale |-> type.scale]
  ELSE [kind |-> type.id, width |-> 0, scale |-> 0]

\* toVeloxVector(size, duckVector, veloxType, pool)
toVeloxVector(size, duckVector, veloxType, uninit) ==
  LET type == duckVector.type
  IN IF type.id \in DOMAIN ConversionOf
     THEN convert(ConversionOf[type.id], duckVector, veloxType, size,
                  NoValidity, uninit)
     ELSE IF type.id = "DECIMAL"
     THEN IF type.internal \in DOMAIN DecimalConversionOf
          THEN convertDuckToVeloxDecimal(DecimalConversionOf[type.internal],
                                         duckVector, toVeloxType(type), size,
                                         NoValidity, uninit)
          ELSE Thrown("std::runtime_error",
                      "unrecognized internal type for decimal (this shouldn't happen",
                      "")
     ELSE Thrown("std::runtime_error",
                 "Unsupported vector type for conversion: ", type.id)

----------------------------------------------------------------------------
(* Inputs of the conversion model: foreign vectors of every supported type *)
(* and of two unsupported ones, flat, dictionary over flat, and constant.  *)
(* Slot i of a flat vector holds 10 * (i + 1) when somebody wrote it: a    *)
(* slot of an invalid row, and a slot of a dictionary child the selection  *)
(* does not refer to, hold Garbage.                                        *)

MaxSlots == 3      \* data slots of a foreign flat vector
MaxSize == 3       \* largest size handed to toVeloxVector

DuckTypes ==
  {DuckType(id, "", 0, 0) : id \in DOMAIN ConversionOf \cup {"INTERVAL"}}
    \cup {DuckType("DECIMAL", "INT16", 4, 1), DuckType("DECIMAL", "INT32", 9, 2),
          DuckType("DECIMAL", "INT64", 18, 2),
          DuckType("DECIMAL", "INT128", 38, 10),
          DuckType("DECIMAL", "INT8", 2, 0)}

\* Validity masks of a flat vector: none, or any bit pattern.
DuckValidities ==
  {[allValid |-> TRUE, valid |-> [i \in 0..(MaxSlots - 1) |-> TRUE]]}
    \cup {[allValid |-> FALSE, valid |-> m] :
            m \in [0..(MaxSlots - 1) -> BOOLEAN]}

\* A flat vector whose slots in written hold values.
DuckFlat(type, validity, written) ==
  DuckFlatVector(type,
                 [i \in 0..(MaxSlots - 1) |->
                    IF i \in written /\ validity.valid[i]
                    THEN 10 * (i + 1) ELSE Garbage],
                 validity.allValid, validity.valid)

DuckSelections ==
  UNION {[0..(n - 1) -> 0..(MaxSlots - 1)] : n \in 0..MaxSize}

\* The vector and the size of one call of toVeloxVector.
DuckInputs ==
  {[vector |-> DuckFlat(type, validity, 0..(n - 1)), size |-> n] :
     type \in DuckTypes, validity \in DuckValidities, n \in 0..MaxSize}
    \cup
  {[vector |-> DuckDictionaryVector(
                 type,
                 DuckFlat(type, validity, {sel[i] : i \in DOMAIN sel}),
                 sel),
    size |-> Cardinality(DOMAIN sel)] :
     type \in DuckTypes, validity \in DuckValidities, sel \in DuckSelections}
    \cup
  {[vector |-> DuckOtherVector(encoding, type), size |-> n] :
     encoding \in {"CONSTANT_VECTOR", "SEQUENCE_VECTOR"},
     type \in DuckTypes, n \in 0..MaxSize}

InitConvert ==
  /\ \E in \in DuckInputs :
       foreignVector = in.vector /\ foreignSize = in.size
  /\ converted = NoVector
  /\ pc = "ready"
  /\ FlattenIdle /\ DecimalIdle /\ OperatorIdle /\ DuckResultIdle
  /\ ContainsIdle
  /\ LifetimeIdle

\* A caller converts the foreign vector.
ToVeloxVector ==
  /\ pc = "ready"
  /\ \E uninit \in Uninitialized :
       converted' = toVeloxVector(foreignSize, foreignVector,
                                  toVeloxType(foreignVector.type), uninit)
  /\ pc' = "done"
  /\ UNCHANGED <<foreignVector, foreignSize>>
  /\ UNCHANGED <<flattenVars, decimalVars, operatorVars, duckResultVars,
                 containsVars, lifetimeVars>>

NextConvert == ToVeloxVector

SpecConvert == InitConvert /\ [][NextConvert]_vars

----------------------------------------------------------------------------
(* DuckResult: the cursor over the chunks of a query result.  A chunk has  *)
(* a size and one foreign vector per column; the model has one column.     *)

MaxChunks == 2     \* chunks a query result holds

DataChunk(size, data) == [present |-> TRUE, size |-> size, data |-> data]

\* Vector::Normalify: a dictionary vector is rewritten as the flat vector
\* of the rows it presents.
NormalifyVector(duckVector, size) ==
  IF duckVector.encoding = "DICTIONARY_VECTOR"
  THEN DuckFlatVector(
         duckVector.type,
         [i \in 0..(size - 1) |-> duckVector.child.data[duckVector.sel[i]]],
         duckVector.child.allValid,
         [i \in 0..(size - 1) |-> duckVector.child.valid[duckVector.sel[i]]])
  ELSE duckVector

\* DataChunk::Normalify
Normalify(chunk) ==
  [chunk EXCEPT !.data = [c \in DOMAIN chunk.data |->
                            NormalifyVector(chunk.data[c], chunk.size)]]

\* The chunks a query may produce: empty ones and ones with rows, a flat
\* INTEGER column with or without a null first row, or a dictionary VARCHAR
\* column that presents its child in reverse.
DuckChunks ==
  {DataChunk(n, <<DuckFlat(DuckType("INTEGER", "", 0, 0), validity,
                           0..(n - 1))>>) :
     n \in 0..MaxSize,
     validity \in {v \in DuckValidities :
                     \A i \in 1..(MaxSlots - 1) : v.valid[i]}}
    \cup
  {DataChunk(n, <<DuckDictionaryVector(
                    DuckType("VARCHAR", "", 0, 0),
                    DuckFlat(DuckType("VARCHAR", "", 0, 0),
                             CHOOSE v \in DuckValidities : v.allValid,
                             0..(n - 1)),
                    [i \in 0..(n - 1) |-> n - 1 - i])>>) :
     n \in 0..MaxSize}

\* queryResult_->types.size()
columnCount == 1

InitDuckResult ==
  /\ queryResult_ \in UNION {[1..k -> DuckChunks] : k \in 0..MaxChunks}
  /\ currentChunk_ = NoChunk
  /\ nextReturned = <<>>
  /\ converted = NoVector
  /\ foreignVector = NoVector /\ foreignSize = 0
  /\ pc = "ready"
  /\ FlattenIdle /\ DecimalIdle /\ OperatorIdle /\ ContainsIdle
  /\ LifetimeIdle

\* DuckResult::next(): Fetch hands over the next chunk, or nothing at the
\* end of the result; a vector got from the chunk before is dropped.
DuckNext ==
  /\ Len(nextReturned) < MaxChunks + 2
  /\ LET fetched == IF queryResult_ = <<>> THEN NoChunk
                    ELSE Head(queryResult_)
     IN /\ queryResult_' = IF queryResult_ = <<>> THEN <<>>
                           ELSE Tail(queryResult_)
        /\ IF ~fetched.present
           THEN /\ currentChunk_' = fetched
                /\ nextReturned' = Append(nextReturned, FALSE)
           ELSE /\ currentChunk_' = Normalify(fetched)
                /\ nextReturned' = Append(nextReturned, fetched.size > 0)
  /\ converted' = NoVector
  /\ UNCHANGED <<foreignVector, foreignSize, pc>>
  /\ UNCHANGED <<flattenVars, decimalVars, operatorVars, containsVars, lifetimeVars>>

\* DuckResult::getVector(columnIdx) on the current chunk.
getVector(chunk, columnIdx, uninit) ==
  IF ~(columnIdx < columnCount)
  THEN Thrown("VeloxRuntimeError", "columnIdx < columnCount()", "")
  ELSE IF ~chunk.present
  THEN Thrown("VeloxRuntimeError",
              "no chunk available: did you call next() and did it return true?",
              "")
  ELSE toVeloxVector(chunk.size, chunk.data[columnIdx + 1],
                     toVeloxType(chunk.data[columnIdx + 1].type), uninit)

\* A caller asks for the vector of a column, also of one past the last.
DuckGetVector ==
  /\ \E columnIdx \in 0..columnCount, uninit \in Uninitialized :
       converted' = getVector(currentChunk_, columnIdx, uninit)
  /\ UNCHANGED <<foreignVector, foreignSize, pc, duckResultVars>>
  /\ UNCHANGED <<flattenVars, decimalVars, operatorVars, containsVars, lifetimeVars>>

NextDuckResult == DuckNext \/ DuckGetVector

SpecDuckResult == InitDuckResult /\ [][NextDuckResult]_vars

----------------------------------------------------------------------------
(* The foreign memory behind a DuckResult.  The data buffer and the        *)
(* validity buffer of the column of a chunk are shared: the chunk holds    *)
(* each of them, a releaser holds what it was built with, and a buffer is  *)
(* released when its last holder goes.  foreignMemory maps every buffer    *)
(* handed out so far to its use count, 0 for a released one; bufferViews   *)
(* is the bag of the BufferViews that are alive, whether a vector or       *)
(* another reader keeps them.                                              *)

MaxViews == 3      \* BufferViews alive at one time

\* The buffers of the column of the k-th chunk fetched.
DataBuffer(k) == [chunk |-> k, part |-> "data"]
ValidityBuffer(k) == [chunk |-> k, part |-> "validity"]

\* What a normalified chunk holds: the data buffer of its column, and the
\* buffer of the validity mask when the column has one.
ChunkBuffers(chunk, k) ==
  IF ~chunk.present THEN {}
  ELSE {DataBuffer(k)}
         \cup (IF chunk.data[1].allValid THEN {} ELSE {ValidityBuffer(k)})

\* One more holder, and one holder less, of each buffer in held.
Share(memory, held) ==
  [b \in DOMAIN memory |-> IF b \in held THEN memory[b] + 1 ELSE memory[b]]

Unshare(memory, held) ==
  [b \in DOMAIN memory |-> IF b \in held THEN memory[b] - 1 ELSE memory[b]]

\* Mutant: a releaser that does not keep the buffer.
DuckDBBufferReleaser_Borrowed(buffer) == [holds |-> {}]

\* DuckDBBufferReleaser(buffer): keeps a buffer_ptr of the buffer until it
\* is destroyed; addRef and release do nothing.
DuckDBBufferReleaser(buffer) == [holds |-> {buffer}]

\* DuckDBValidityReleaser(validity): keeps a copy of the validity mask,
\* which shares the buffer of the mask.
DuckDBValidityReleaser(validity) == [holds |-> {validity}]

\* BufferView<Releaser>::create(data, size, releaser): a view of memory
\* that keeps its releaser as long as it lives.
BufferView(memory, releaser) == [memory |-> memory, releaser |-> releaser]

\* The views the zero-copy path builds for the column of the k-th chunk:
\* valuesView, and nullsView when the column is not all valid.
viewsOf(result, k) ==
  IF result.status = "ok" /\ result.vector.view
  THEN {BufferView(DataBuffer(k), DuckDBBufferReleaser(DataBuffer(k)))}
         \cup (IF result.vector.hasNulls
               THEN {BufferView(ValidityBuffer(k),
                                DuckDBValidityReleaser(ValidityBuffer(k)))}
               ELSE {})
  ELSE {}

\* Chunks of two rows: a flat INTEGER column with and without a validity
\* mask (zero-copy) and a dictionary VARCHAR column (copied).
LifetimeChunks == {chunk \in DuckChunks : chunk.size = Min(2, MaxSize)}

InitLifetime ==
  /\ queryResult_ \in UNION {[1..k -> LifetimeChunks] : k \in 0..MaxChunks}
  /\ currentChunk_ = NoChunk
  /\ nextReturned = <<>>
  /\ converted = NoVector
  /\ foreignVector = NoVector /\ foreignSize = 0
  /\ foreignMemory = <<>>
  /\ bufferViews = EmptyBag
  /\ pc = "ready"
  /\ FlattenIdle /\ DecimalIdle /\ OperatorIdle /\ ContainsIdle

\* DuckResult::next() with the memory it moves: the fetched chunk brings
\* its buffers, and the chunk it replaces is destroyed and lets go of its
\* own.
FetchNext ==
  /\ pc = "ready"
  /\ Len(nextReturned) < MaxChunks + 1
  /\ LET fetched == IF queryResult_ = <<>> THEN NoChunk
                    ELSE Normalify(Head(queryResult_))
         k == Len(nextReturned) + 1
     IN /\ queryResult_' = IF queryResult_ = <<>> THEN <<>>
                           ELSE Tail(queryResult_)
        /\ currentChunk_' = fetched
        /\ nextReturned' = Append(nextReturned,
                                  fetched.present /\ fetched.size > 0)
        /\ foreignMemory' =
             Unshare(foreignMemory,
                     ChunkBuffers(currentChunk_, Len(nextReturned)))
               @@ [b \in ChunkBuffers(fetched, k) |-> 1]
  /\ converted' = NoVector
  /\ UNCHANGED <<foreignVector, foreignSize, pc, bufferViews>>
  /\ UNCHANGED <<flattenVars, decimalVars, operatorVars, containsVars>>

\* DuckResult::getVector(0) with the views the conversion builds: every
\* releaser takes a share of what it holds.
GetVectorViews ==
  /\ pc = "ready"
  /\ \E uninit \in Uninitialized :
       LET result == getVector(currentChunk_, 0, uninit)
           views == viewsOf(result, Len(nextReturned))
       IN /\ BagCardinality(bufferViews) + Cardinality(views) <= MaxViews
          /\ converted' = result
          /\ bufferViews' = bufferViews (+) SetToBag(views)
          /\ foreignMemory' =
               Share(foreignMemory,
                     UNION {view.releaser.holds : view \in views})
  /\ UNCHANGED <<foreignVector, foreignSize, pc, duckResultVars>>
  /\ UNCHANGED <<flattenVars, decimalVars, operatorVars, containsVars>>

\* The last reference to a BufferView goes: the view and its releaser are
\* destroyed.
DropView ==
  /\ \E view \in BagToSet(bufferViews) :
       /\ bufferViews' = bufferViews (-) SetToBag({view})
       /\ foreignMemory' = Unshare(foreignMemory, view.releaser.holds)
  /\ UNCHANGED <<convertVars, pc, duckResultVars>>
  /\ UNCHANGED <<flattenVars, decimalVars, operatorVars, containsVars>>

\* The DuckResult is destroyed, and with it the current chunk and the
\* query result.
DestroyDuckResult ==
  /\ pc = "ready"
  /\ pc' = "destroyed"
  /\ queryResult_' = <<>>
  /\ currentChunk_' = NoChunk
  /\ foreignMemory' =
       Unshare(foreignMemory, ChunkBuffers(currentChunk_, Len(nextReturned)))
  /\ UNCHANGED <<convertVars, nextReturned, bufferViews>>
  /\ UNCHANGED <<flattenVars, decimalVars, operatorVars, containsVars>>

NextLifetime == FetchNext \/ GetVectorViews \/ DropView \/ DestroyDuckResult

SpecLifetime == InitLifetime /\ [][NextLifetime]_vars

----------------------------------------------------------------------------
(* contains(array, x): the array function the tests of the vector model    *)
(* exercise.  Its rows are computed from the set generateSet builds of a   *)
(* row's elements.                                                         *)

\* Mutant: generateSet that does not note a null element.
generateSet_NoNullFlag(arrayVec, arrayElements, idx) ==
  LET size == arrayVec.sizes[idx]
      offset == arrayVec.offsets[idx]
  IN [set |-> {arrayElements.values[i] :
                 i \in {j \in offset..(offset + size - 1) :
                          ~IsNullAt(arrayElements, j)}},
      hasNull |-> FALSE]

\* generateSet: rightSet.reset(), then every element of row idx is either
\* noted as a null or inserted.
generateSet(arrayVec, arrayElements, idx) ==
  LET size == arrayVec.sizes[idx]
      offset == arrayVec.offsets[idx]
  IN [set |-> {arrayElements.values[i] :
                 i \in {j \in offset..(offset + size - 1) :
                          ~IsNullAt(arrayElements, j)}},
      hasNull |-> \E i \in offset..(offset + size - 1) :
                    IsNullAt(arrayElements, i)]

\* One row of contains: null for a null search value; else true when the
\* set holds the value, else null when the row has a null element, else
\* false.
containsRow(arrayVec, idx, needle) ==
  IF needle.isNull THEN [isNull |-> TRUE, value |-> FALSE]
  ELSE LET rightSet == generateSet(arrayVec, arrayVec.elements, idx)
       IN IF needle.value \in rightSet.set
          THEN [isNull |-> FALSE, value |-> TRUE]
          ELSE IF rightSet.hasNull THEN [isNull |-> TRUE, value |-> FALSE]
          ELSE [isNull |-> FALSE, value |-> FALSE]

\* contains over the selected rows, written into a result vector: into the
\* caller's when there is one, else into a new one of rows.size() rows.
\* Writing a row sets its value and its null flag; other rows are kept.
applyContains(sel, arrayVec, needle, result, uninit) ==
  LET given == result # NoVector
      out == [r \in sel.selected |-> containsRow(arrayVec, r, needle)]
      nulls == [r \in 0..(sel.size - 1) |->
                  IF r \in sel.selected THEN out[r].isNull
                  ELSE IF given THEN IsNullAt(result, r) ELSE FALSE]
  IN VeloxFlatVector(
       "BOOLEAN", \E r \in DOMAIN nulls : nulls[r], nulls, sel.size,
       [r \in 0..(sel.size - 1) |->
          IF r \in sel.selected THEN out[r].value
          ELSE IF given THEN result.values[r] ELSE uninit # 0],
       FALSE)

\* The element values of the model; NullElement marks a null element.
ElementValues == {5, 6}
NullElement == 0

\* Elements children: every assignment of a value or a null to the slots.
ContainsElements ==
  {VeloxFlatVector("BIGINT", \E i \in DOMAIN e : e[i] = NullElement,
                   [i \in DOMAIN e |-> e[i] = NullElement], NumElements,
                   e, FALSE) :
     e \in [0..(NumElements - 1) -> ElementValues \cup {NullElement}]}

\* The array vector with one row for every element range of the child.
ContainsArray(elements) ==
  ArrayVector(FALSE, EmptyBuffer, Len(AllRanges),
              [r \in 0..(Len(AllRanges) - 1) |-> AllRanges[r + 1].offset],
              [r \in 0..(Len(AllRanges) - 1) |-> AllRanges[r + 1].size],
              elements)

\* makeConstant(search, size): a value in the arrays, one in none, or null.
SearchValues ==
  {[isNull |-> TRUE, value |-> 0]}
    \cup {[isNull |-> FALSE, value |-> x] : x \in {5, 7}}

\* Selections of all rows of a vector, or of all but one.
ContainsSelections(length) ==
  {[size |-> length, selected |-> (0..(length - 1)) \ skipped] :
     skipped \in {{}} \cup {{r} : r \in 0..(length - 1)}}

InitContains ==
  /\ arrayVector \in {ContainsArray(e) : e \in ContainsElements}
  /\ search \in SearchValues
  /\ rows \in ContainsSelections(arrayVector.length)
  /\ flatResult = NoVector
  /\ pc = "ready"
  /\ vector = NoVector /\ buffers = NoBuffers /\ returned = NoVector
  /\ calls = 0
  /\ DecimalIdle /\ OperatorIdle /\ ConvertIdle /\ DuckResultIdle
  /\ LifetimeIdle

\* The caller pre-allocates the result: makeFlatVector<bool>(size), with at
\* most one row preset to null.
PreAllocate ==
  /\ pc = "ready"
  /\ flatResult = NoVector
  /\ \E preset \in {{}} \cup {{r} : r \in 0..(rows.size - 1)} :
       flatResult' =
         VeloxFlatVector("BOOLEAN", preset # {},
                         [r \in 0..(rows.size - 1) |-> r \in preset],
                         rows.size,
                         [r \in 0..(rows.size - 1) |-> FALSE], FALSE)
  /\ UNCHANGED <<arrayVector, search, rows, pc>>
  /\ UNCHANGED <<vector, buffers, returned, calls>>
  /\ UNCHANGED <<decimalVars, operatorVars, convertVars, duckResultVars,
                 lifetimeVars>>

\* evaluate("contains(c0, c1)", ...) over rows.
Contains ==
  /\ pc = "ready"
  /\ \E uninit \in Uninitialized :
       flatResult' = applyContains(rows, arrayVector, search, flatResult,
                                   uninit)
  /\ pc' = IF flatResult = NoVector THEN "done" ELSE "done-preallocated"
  /\ UNCHANGED <<arrayVector, search, rows>>
  /\ UNCHANGED <<vector, buffers, returned, calls>>
  /\ UNCHANGED <<decimalVars, operatorVars, convertVars, duckResultVars,
                 lifetimeVars>>

NextContains == PreAllocate \/ Contains

SpecContains == InitContains /\ [][NextContains]_vars

----------------------------------------------------------------------------
(* Properties of flattening.                                               *)

Decoded == decode(vector)

Flattened == pc = "done" /\ ~Decoded.isIdentityMapping
ReturnedAsIs == pc = "done" /\ Decoded.isIdentityMapping

SelectedNonNull == {r \in rows.selected : ~Decoded.nullAt[r]}

\* The elements of row r read through the returned vector's offsets, sizes
\* and child.
ResultSlice(child, r) ==
  [i \in 0..(returned.sizes[r] - 1) |->
     ChildValueAt(child, returned.offsets[r] + i)]

\* The slice of the base vector's child that row r resolves to.
BaseSlice(child, r) ==
  LET b == Decoded.base
      j == Decoded.indices[r]
  IN [i \in 0..(b.sizes[j] - 1) |-> child.values[b.offsets[j] + i]]

\* C1: after flattening a dictionary-encoded Array/Map, every selected
\* non-null row reads, through the returned vector's offsets, sizes and
\* wrapped child, the base vector's child slice of that row, in order (for a
\* Map both the keys and the values).
C1_ContentPreserved ==
  Flattened =>
    \A r \in SelectedNonNull :
      IF returned.encoding = "ARRAY"
      THEN ResultSlice(returned.elements, r) = BaseSlice(Decoded.base.elements, r)
      ELSE /\ ResultSlice(returned.mapKeys, r) = BaseSlice(Decoded.base.mapKeys, r)
           /\ ResultSlice(returned.mapValues, r)
                = BaseSlice(Decoded.base.mapValues, r)

\* C1 witness: a Map was flattened in which two selected rows resolve, out
\* of order, to base rows of which one has two elements.
C1_Witness ==
  /\ Flattened
  /\ returned.encoding = "MAP"
  /\ \E r1, r2 \in SelectedNonNull :
       /\ r1 < r2
       /\ Decoded.indices[r1] > Decoded.indices[r2]
       /\ returned.sizes[r2] = 2
       /\ returned.sizes[r1] = 1

RECURSIVE SumOver(_, _)
SumOver(S, f) ==
  IF S = {} THEN 0
  ELSE LET x == CHOOSE x \in S : TRUE IN f[x] + SumOver(S \ {x}, f)

\* C2: when flattenBuffers finishes, the sizes of the selected non-null rows
\* add up to the length of elementIndices, the write cursor stands at
\* newNumElements and no write went past the index buffer.
C2_ElementCount ==
  Flattened =>
    /\ SumOver(SelectedNonNull, buffers.newSizes)
         = Cardinality(DOMAIN buffers.elementIndices)
    /\ buffers.elementIndex = buffers.newNumElements
    /\ Cardinality(DOMAIN buffers.elementIndices) = buffers.newNumElements
    /\ ~buffers.overrun

\* C2 witness: a selected null row next to a selected row with elements.
C2_Witness ==
  /\ Flattened
  /\ \E r \in rows.selected : Decoded.nullAt[r]
  /\ \E r \in SelectedNonNull : buffers.newSizes[r] > 0
  /\ buffers.elementIndex > 0

\* C3: on an identity mapping the input vector itself is returned and no
\* buffer is built; so a flattened vector handed back in comes out as is.
C3_IdentityReturned ==
  ReturnedAsIs => returned = vector /\ buffers = NoBuffers

\* C3 witness: the second call was handed the first call's result, whose
\* child is dictionary wrapped, and returned it.
C3_Witness ==
  /\ ReturnedAsIs
  /\ calls = 2
  /\ vector.encoding = "ARRAY"
  /\ vector.elements.encoding = "DICTIONARY"
  /\ returned = vector

\* C4 as stated: the returned vector has rows.size() rows whatever the
\* encoding of the input.
C4_Original == pc = "done" => returned.length = rows.size

\* C4 amended: a dictionary-encoded input yields rows.size() rows; an
\* identity-encoded input is returned with its own length.
C4_ResultLength ==
  /\ Flattened => returned.length = rows.size
  /\ ReturnedAsIs => returned.length = vector.length

\* C4 witness: a dictionary-encoded Map flattened under a selection whose
\* size differs from the input's length and whose last row is not selected.
C4_Witness ==
  /\ Flattened
  /\ returned.encoding = "MAP"
  /\ rows.size # vector.length
  /\ rows.selected # {}
  /\ SelEnd(rows) < rows.size

\* C5: every selected row of the result is null exactly when the decoded
\* input is null there, and a decoded input that cannot have nulls gives a
\* result without validity buffer.
C5_NullsPreserved ==
  pc = "done" =>
    /\ \A r \in rows.selected : IsNullAt(returned, r) = Decoded.nullAt[r]
    /\ ~Decoded.mayHaveNulls => ~returned.hasNulls

\* C5 witness: one selected row is null in the dictionary, another in the
\* base vector, a third is not null.
C5_Witness ==
  /\ Flattened
  /\ \E r \in rows.selected : IsNullAt(vector, r) /\ IsNullAt(returned, r)
  /\ \E r \in rows.selected :
       ~IsNullAt(vector, r) /\ IsNullAt(vector.base, vector.indices[r])
         /\ IsNullAt(returned, r)

----------------------------------------------------------------------------
(* Properties of parseStringToDecimal.  What a string denotes is read off  *)
(* the string by position, not by the parser's arithmetic.                 *)

Parsed == pc = "done" /\ decimal.status # "none"
Accepted == Parsed /\ decimal.status = "ok"

IsSign(c) == c = "+" \/ c = "-"

\* The string after its optional leading sign.
Body(str) == IF str # <<>> /\ IsSign(str[1]) THEN Tail(str) ELSE str

DigitPositions(b) == {i \in 1..Len(b) : isdigit(b[i])}
DotPositions(b) == {i \in 1..Len(b) : b[i] = "."}
DigitCount(b) == Cardinality(DigitPositions(b))

\* [+-]?[0-9]*(\.[0-9]*)?
MatchesGrammar(str) ==
  LET b == Body(str)
  IN /\ \A i \in 1..Len(b) : isdigit(b[i]) \/ b[i] = "."
     /\ Cardinality(DotPositions(b)) <= 1

\* Number of zeros in front of the first other character.
LeadingZeros(b) == Cardinality({i \in 1..Len(b) : \A j \in 1..i : b[j] = "0"})

\* Number of digits behind the first separator.
DigitsAfterDot(b) ==
  IF DotPositions(b) = {} THEN 0
  ELSE Cardinality({i \in DigitPositions(b) :
                      \E d \in DotPositions(b) : d < i})

\* The integer written by the digits of b, separators removed, as limbs.
NumeralMag(b) ==
  LET ds == SelectSeq(b, isdigit)
      n == Len(ds)
      D(k) == IF k <= n THEN DigitValue(ds[n + 1 - k]) ELSE 0
      limbs == [i \in 1..((n + 3) \div 4) |->
                  D(4 * i - 3) + 10 * D(4 * i - 2) + 100 * D(4 * i - 1)
                    + 1000 * D(4 * i)]
      used == {i \in 1..Len(limbs) : limbs[i] # 0}
  IN IF used = {} THEN <<>> ELSE SubSeq(limbs, 1, SetMax(used))

\* 10^p as limbs.
Pow10Mag(p) ==
  [i \in 1..((p \div 4) + 1) |->
     IF i = (p \div 4) + 1 THEN 10 ^ (p % 4) ELSE 0]

\* C6: an accepted string and its Decimal denote the same number: the
\* unscaled value is the signed integer written by the digits, the scale is
\* the number of digits behind the separator and the precision the number of
\* digits scanned (those left after the leading zeros are stripped).
C6_ValuePreserved ==
  Accepted =>
    LET b == Body(value)
    IN /\ decimal.unscaledValue.mag = NumeralMag(b)
       /\ decimal.unscaledValue.neg = (value[1] = "-" /\ NumeralMag(b) # <<>>)
       /\ decimal.scale = DigitsAfterDot(b)
       /\ decimal.precision = DigitCount(b) - LeadingZeros(b)

\* C6 witness: a negative number with a long fraction was accepted.
C6_Witness ==
  /\ Accepted
  /\ value[1] = "-"
  /\ decimal.unscaledValue.neg
  /\ decimal.scale >= 36
  /\ decimal.precision > decimal.scale

\* C7: a digit string of more than 38 digits fails with "Decimal overflow".
C7_OverflowAbove38 ==
  (Parsed /\ MatchesGrammar(value)
     /\ DigitCount(Body(value)) > kMaxPrecisionInt128)
    => (decimal.status = "VeloxUserError"
          /\ decimal.message = "Decimal overflow")

\* C8: a character other than a digit or the separator behind the optional
\* sign, and a second separator, fail with a user error that is not the
\* overflow error.
C8_OnlyDigitsAndOneDot ==
  (Parsed /\ Len(value) > 0 /\ ~MatchesGrammar(value))
    => (decimal.status = "VeloxUserError"
          /\ decimal.message # "Decimal overflow")

\* C9: a non-empty string of the grammar with at most 38 digits is accepted.
C9_GrammarAccepted ==
  (Parsed /\ Len(value) > 0 /\ MatchesGrammar(value)
     /\ DigitCount(Body(value)) <= kMaxPrecisionInt128)
    => decimal.status = "ok"

\* C10: a returned Decimal has precision in 1..38, scale in 0..precision
\* and an unscaled value below 10^precision in absolute value.
C10_DecimalInvariant ==
  Accepted =>
    /\ decimal.precision \in 1..kMaxPrecisionInt128
    /\ decimal.scale \in 0..decimal.precision
    /\ MagCmp(decimal.unscaledValue.mag, Pow10Mag(decimal.precision)) < 0

\* C23: parseStringToDecimal comes to an end, with a Decimal or an error,
\* on every non-empty string, also on one of more than 255 characters.
C23_ParseTerminates == <>(pc = "done" /\ decimal.status # "none")

----------------------------------------------------------------------------
(* More properties of flattening.                                          *)

\* The output element range of row r.
OutputRange(r) ==
  buffers.newOffsets[r]..(buffers.newOffsets[r] + buffers.newSizes[r] - 1)

\* C20: over the selected non-null rows in ascending order, newOffsets
\* starts at 0 and each next one is the previous newOffsets plus newSizes;
\* the output ranges are disjoint, in selection order, and cover exactly
\* 0 .. newNumElements - 1.
C20_ContiguousRanges ==
  Flattened =>
    /\ \A r \in SelectedNonNull :
         buffers.newOffsets[r]
           = SumOver({q \in SelectedNonNull : q < r}, buffers.newSizes)
    /\ \A r, q \in SelectedNonNull :
         r < q => buffers.newOffsets[r] + buffers.newSizes[r]
                    <= buffers.newOffsets[q]
    /\ UNION {OutputRange(r) : r \in SelectedNonNull}
         = 0..(buffers.newNumElements - 1)

\* Two selected rows with elements whose base rows are in the other order,
\* behind a first row of more than one element.
C20_Witness ==
  /\ Flattened
  /\ \E r, q \in SelectedNonNull :
       /\ r < q
       /\ Decoded.base.offsets[Decoded.indices[r]]
            > Decoded.base.offsets[Decoded.indices[q]]
       /\ buffers.newSizes[r] > 0 /\ buffers.newSizes[q] > 1
       /\ buffers.newOffsets[q] > 0

\* C24: the offsets and sizes buffers of a flattened vector hold an entry
\* for every row of the vector, also when no row is selected or the last
\* selected row is not the last row.
C24_BuffersCoverRows ==
  Flattened
    => /\ Cardinality(DOMAIN returned.offsets) >= returned.length
       /\ Cardinality(DOMAIN returned.sizes) >= returned.length

----------------------------------------------------------------------------
(* Properties of the Decimal and Int128 operators.                         *)

Calls(ops) == {c \in outcome : c.op \in ops}

TupleOf(d) == <<d.unscaledValue, d.precision, d.scale>>

\* Whether two Decimals denote the same number unscaledValue * 10^-scale.
SameNumber(a, b) ==
  SignedMul(a.unscaledValue, Signed(FALSE, Pow10Mag(b.scale)))
    = SignedMul(b.unscaledValue, Signed(FALSE, Pow10Mag(a.scale)))

\* C11: a == b is true exactly when unscaledValue, precision and scale are
\* all equal; equal numbers written with another scale or precision are
\* unequal; a == a is true and a == b agrees with b == a.
C11_TupleEquality ==
  /\ \A c \in Calls({"=="}) :
       /\ c.equal = (TupleOf(Operand(c.a)) = TupleOf(Operand(c.b)))
       /\ (SameNumber(Operand(c.a), Operand(c.b))
             /\ (Operand(c.a).scale # Operand(c.b).scale
                   \/ Operand(c.a).precision # Operand(c.b).precision))
            => ~c.equal
       /\ c.a = c.b => c.equal
  /\ \A c, d \in Calls({"=="}) : (c.a = d.b /\ c.b = d.a) => c.equal = d.equal

\* Two Decimals for the same number, at different scales, were compared in
\* both directions.
C11_Witness ==
  /\ SameNumber(self, other) /\ self.scale # other.scale
  /\ \E c, d \in Calls({"=="}) :
       c.a = "self" /\ c.b = "other" /\ d.a = "other" /\ d.b = "self"
         /\ ~c.equal

\* C12: a != b is true exactly when the tuples differ, so it is the negation
\* of a == b and a != a is false.
C12_NotEqualsNegatesEquals ==
  \A c \in Calls({"!="}) :
    /\ c.equal = (TupleOf(Operand(c.a)) # TupleOf(Operand(c.b)))
    /\ c.equal = ~DecimalEquals(Operand(c.a), Operand(c.b))

\* A natural number as limbs.
RECURSIVE MagOfNat(_)
MagOfNat(n) == IF n = 0 THEN <<>> ELSE <<n % 10000>> \o MagOfNat(n \div 10000)

\* The value c * 2^127 + n, for c in -1..1 and an n of machine size.
Around(c, n) ==
  SignedAdd(Signed(c < 0, IF c = 0 THEN <<>> ELSE Int128Limit),
            Signed(n < 0, MagOfNat(IF n < 0 THEN -n ELSE n)))

\* The unscaled values of Decimals, each written as <<c, n>> for
\* c * 2^127 + n.
OperandPairs ==
  {<<0, 0>>, <<0, 1>>, <<0, -1>>, <<0, 2>>, <<0, 9>>, <<0, 1230>>,
   <<0, 12300>>, <<1, -1>>, <<1, -2>>, <<-1, 0>>, <<-1, 1>>}

PairOf(x) == CHOOSE p \in OperandPairs : Around(p[1], p[2]) = x

\* The mathematical result of an operator on two such values, in machine
\* integers: high is the coefficient of 2^254, c that of 2^127.
Exact(op, p, q) ==
  IF op = "+" THEN [high |-> 0, c |-> p[1] + q[1], n |-> p[2] + q[2]]
  ELSE IF op = "-" THEN [high |-> 0, c |-> p[1] - q[1], n |-> p[2] - q[2]]
  ELSE [high |-> p[1] * q[1], c |-> p[1] * q[2] + q[1] * p[2],
        n |-> p[2] * q[2]]

\* Whether high * 2^254 + c * 2^127 + n, with |n| far below 2^127 and
\* |c| far below 2^127, lies in -2^127 .. 2^127 - 1.
InRange(e) ==
  e.high = 0 /\ (e.c = 0 \/ (e.c = 1 /\ e.n < 0) \/ (e.c = -1 /\ e.n >= 0))

ExactOutcome ==
  \A call \in Calls({"+", "-", "*"}) :
    LET e == Exact(call.op, PairOf(Operand(call.a).unscaledValue),
                   PairOf(Operand(call.b).unscaledValue))
    IN /\ call.ok = InRange(e)
       /\ call.ok => call.value = Around(e.c, e.n)

\* C13: +, - and * on Int128 give the exact result when it fits 128 bits
\* and fail otherwise, whatever the precision and scale of the Decimals the
\* values come from, and no call changes an operand.
C13_CheckedArithmetic ==
  []ExactOutcome /\ [][self' = self /\ other' = other]_vars

\* An addition overflowed, and a product came out exact that has more
\* digits than the precision of its operands.
C13_Witness ==
  /\ \E c \in Calls({"+"}) : ~c.ok
  /\ \E c \in Calls({"*"}) :
       /\ c.ok
       /\ MagCmp(c.value.mag, Pow10Mag(Operand(c.a).precision)) >= 0

----------------------------------------------------------------------------
(* Properties of the conversion.                                           *)

\* Whether row i of a Velox vector is null, and its value, resolved through
\* dictionary wrappers; a dictionary index past the base reads Garbage.
RECURSIVE ResolvedNullAt(_, _)
ResolvedNullAt(v, i) ==
  IF v.encoding = "DICTIONARY"
  THEN v.indices[i] < v.base.length /\ ResolvedNullAt(v.base, v.indices[i])
  ELSE v.hasNulls /\ v.nulls[i]

RECURSIVE ResolvedValueAt(_, _)
ResolvedValueAt(v, i) ==
  IF v.encoding = "DICTIONARY"
  THEN IF v.indices[i] < v.base.length
       THEN ResolvedValueAt(v.base, v.indices[i]) ELSE Garbage
  ELSE v.values[i]

\* The supported mapping of the conversion adapter.
SupportedType(type) ==
  IF type.id = "DECIMAL"
  THEN type.internal \in {"INT16", "INT32", "INT64", "INT128"}
  ELSE type.id \in {"BOOLEAN", "TINYINT", "SMALLINT", "INTEGER", "BIGINT",
                    "HUGEINT", "FLOAT", "DOUBLE", "VARCHAR", "DATE",
                    "TIMESTAMP"}

ConversionFor(type) ==
  IF type.id = "DECIMAL" THEN DecimalConversionOf[type.internal]
  ELSE ConversionOf[type.id]

ForeignValid(duckVector, i) == duckVector.allValid \/ duckVector.valid[i]

\* The converted value of slot i of a foreign flat vector.
ForeignValue(duckVector, i) ==
  toVelox(ConversionFor(duckVector.type), duckVector.type, duckVector.data[i])

ConvertedCall == pc = "done" /\ foreignVector # NoVector

\* C14: a flat foreign column of a supported type converts to a vector of
\* the chunk's size whose rows are null exactly where the foreign row is
\* invalid and hold the converted foreign value elsewhere.
C14_FlatConverted ==
  (ConvertedCall /\ foreignVector.encoding = "FLAT_VECTOR"
     /\ SupportedType(foreignVector.type))
    => /\ converted.status = "ok"
       /\ converted.vector.length = foreignSize
       /\ \A i \in 0..(foreignSize - 1) :
            /\ ResolvedNullAt(converted.vector, i)
                 = ~ForeignValid(foreignVector, i)
            /\ ForeignValid(foreignVector, i)
                 => ResolvedValueAt(converted.vector, i)
                      = ForeignValue(foreignVector, i)

\* A column converted on the copy path, with a null row and a valid one.
C14_Witness ==
  /\ ConvertedCall /\ foreignVector.encoding = "FLAT_VECTOR"
  /\ foreignVector.type.id = "VARCHAR"
  /\ converted.status = "ok" /\ ~converted.vector.view
  /\ \E i, j \in 0..(foreignSize - 1) :
       ForeignValid(foreignVector, i) /\ ~ForeignValid(foreignVector, j)

DictionaryCall(decimal_) ==
  /\ ConvertedCall /\ foreignVector.encoding = "DICTIONARY_VECTOR"
  /\ SupportedType(foreignVector.type)
  /\ (foreignVector.type.id = "DECIMAL") = decimal_

\* What the conversion of a dictionary column has to give: row i is the
\* converted child[sel[i]], over a child converted with max(sel) + 1 rows
\* and under an index buffer equal to sel.
DictionaryConverted ==
  LET sel == foreignVector.sel
      child == foreignVector.child
  IN /\ converted.status = "ok"
     /\ converted.vector.length = foreignSize
     /\ converted.vector.encoding = "DICTIONARY"
     /\ converted.vector.indices = [i \in 0..(foreignSize - 1) |-> sel[i]]
     /\ converted.vector.base.length
          = SetMax({0} \cup {sel[i] : i \in 0..(foreignSize - 1)}) + 1
     /\ converted.read \subseteq {sel[i] : i \in 0..(foreignSize - 1)}
     /\ \A i \in 0..(foreignSize - 1) :
          /\ ResolvedNullAt(converted.vector, i) = ~ForeignValid(child, sel[i])
          /\ ForeignValid(child, sel[i])
               => ResolvedValueAt(converted.vector, i)
                    = ForeignValue(child, sel[i])

\* C15: a dictionary column of a supported non-decimal type converts to a
\* dictionary of n rows over the child converted with max(sel) + 1 rows,
\* with sel as its indices, so that row i is the converted child[sel[i]].
C15_DictionaryConverted == DictionaryCall(FALSE) => DictionaryConverted

\* A dictionary that repeats and reorders the rows of its child.
C15_Witness ==
  /\ DictionaryCall(FALSE) /\ foreignSize = MaxSize
  /\ converted.status = "ok"
  /\ foreignVector.sel[0] > foreignVector.sel[1]
  /\ foreignVector.sel[0] = foreignVector.sel[2]
  /\ ForeignValid(foreignVector.child, foreignVector.sel[0])

\* C16: a dictionary DECIMAL column converts as C15 says of the other
\* types, and only child slots the selection refers to are read.
C16_DecimalDictionaryConverted == DictionaryCall(TRUE) => DictionaryConverted

\* C18: a vector of an encoding other than flat and dictionary, or of a type
\* outside the supported mapping, gives no vector but an Unsupported error
\* that names the encoding or the type.
C18_UnsupportedFails ==
  (ConvertedCall
     /\ (foreignVector.encoding \notin {"FLAT_VECTOR", "DICTIONARY_VECTOR"}
           \/ ~SupportedType(foreignVector.type)))
    => /\ converted.status = "error"
       /\ converted.class = "VeloxUserError/UNSUPPORTED"
       /\ converted.named \in {foreignVector.encoding, foreignVector.type.id}

\* The child slots the selection of the converted dictionary refers to.
Referenced ==
  {foreignVector.sel[i] : i \in 0..(foreignSize - 1)}

CopiedDictionaryCall ==
  DictionaryCall(FALSE) /\ needsCopy(foreignVector.child.type)

\* C21: when the child of a dictionary column is copied row by row, the
\* slots handed to the value converter are slots the selection refers to
\* and the foreign validity marks valid: no slot nobody wrote is converted.
C21_OnlyUsedSlotsRead ==
  CopiedDictionaryCall
    => /\ converted.status = "ok"
       /\ \A j \in converted.read :
            /\ j \in Referenced
            /\ ForeignValid(foreignVector.child, j)
            /\ foreignVector.child.data[j] # Garbage

\* A copied child with a slot below the largest index that the foreign
\* validity marks valid but the selection skips, next to slots it reads.
C21_Witness ==
  /\ CopiedDictionaryCall /\ converted.status = "ok"
  /\ converted.read # {}
  /\ \E j \in 0..(converted.vector.base.length - 1) :
       /\ j \notin Referenced
       /\ ForeignValid(foreignVector.child, j)
       /\ foreignVector.child.data[j] = Garbage


----------------------------------------------------------------------------
(* Properties of DuckResult.                                               *)

\* getVector was called for an existing column since the last next().
GotVector ==
  /\ converted # NoVector
  /\ ~(converted.status = "error"
         /\ converted.text = "columnIdx < columnCount()")

LastNextTrue ==
  nextReturned # <<>> /\ nextReturned[Len(nextReturned)]

\* C17: getVector returns a vector only after a next() that returned true;
\* before the first next() and after a next() that returned false it fails
\* with the "no chunk available" check error.
C17_VectorOnlyAfterTrueNext ==
  (GotVector /\ ~LastNextTrue)
    => /\ converted.status = "error"
       /\ converted.class = "VeloxRuntimeError"
       /\ converted.text
            = "no chunk available: did you call next() and did it return true?"

\* C22: the foreign memory a BufferView of the zero-copy path refers to is
\* not released while the view is alive, whatever chunks next() fetched
\* since and whether or not the DuckResult still exists.
C22_ViewedMemoryAlive ==
  \A view \in BagToSet(bufferViews) : foreignMemory[view.memory] > 0

\* Views of the data and of the validity mask of a chunk that next() has
\* replaced, alive after the DuckResult is gone and after the memory of
\* another chunk was released.
C22_Witness ==
  /\ pc = "destroyed"
  /\ \E k \in 1..(Len(nextReturned) - 1) :
       \E values, nulls \in BagToSet(bufferViews) :
         values.memory = DataBuffer(k) /\ nulls.memory = ValidityBuffer(k)
  /\ \E b \in DOMAIN foreignMemory : foreignMemory[b] = 0

----------------------------------------------------------------------------
(* Properties of contains.                                                 *)

Evaluated == pc \in {"done", "done-preallocated"}

\* The elements of row r of the array argument, as positions of the child.
ElementsOf(r) ==
  arrayVector.offsets[r]..(arrayVector.offsets[r] + arrayVector.sizes[r] - 1)

\* C19: on every selected row the result is null for a null search value;
\* else true when a non-null element equals the value; else null when the
\* row holds a null element; else false; also in a pre-allocated result.
C19_Contains ==
  Evaluated =>
    \A r \in rows.selected :
      LET found == \E i \in ElementsOf(r) :
                     /\ ~arrayVector.elements.nulls[i]
                     /\ arrayVector.elements.values[i] = search.value
          holdsNull == \E i \in ElementsOf(r) : arrayVector.elements.nulls[i]
      IN IF search.isNull THEN IsNullAt(flatResult, r)
         ELSE IF found
         THEN ~IsNullAt(flatResult, r) /\ flatResult.values[r]
         ELSE IF holdsNull THEN IsNullAt(flatResult, r)
         ELSE ~IsNullAt(flatResult, r) /\ ~flatResult.values[r]

\* A pre-allocated result: rows that are true, null and false, the null one
\* for a null element, and an empty array among the false ones.
C19_Witness ==
  /\ pc = "done-preallocated" /\ ~search.isNull
  /\ \E r, q, e \in rows.selected :
       /\ flatResult.values[r] /\ ~IsNullAt(flatResult, r)
       /\ IsNullAt(flatResult, q)
       /\ arrayVector.sizes[e] = 0 /\ ~IsNullAt(flatResult, e)
            /\ ~flatResult.values[e]

====
